---- MODULE Spec2Model ----
(***************************************************************************)
(* Model of the docTR OCR command-line wrapper:                            *)
(*   src/path_resolver.py  resolve_input_path                              *)
(*   src/main.py           extract_text_from_doctr_export, main            *)
(*                                                                         *)
(* Text is modelled as a sequence of one-character strings so that join    *)
(* and strip are computed character by character.  Paths are POSIX paths   *)
(* over the alphabet "/", ".", "a", "b" on a file system without symbolic  *)
(* links.                                                                  *)
(***************************************************************************)
EXTENDS Integers, Sequences, FiniteSets, TLC

VARIABLES
  \* ---- extract_text_from_doctr_export ----
  exported,      \* the argument of the call
  fpc,           \* position in the function: "start", "loop", "return", "done", "raised", "idle"
  page_index,    \* number of pages whose loop body has completed
  output_lines,  \* the accumulated list of output lines
  text,          \* the returned string
  \* ---- resolve_input_path ----
  user_path,     \* the argument of the call
  cwd,           \* the process's current working directory
  rpc,           \* "call", "done", "idle"
  resolved,      \* the returned path, as its string
  \* ---- main ----
  args,          \* parsed command line: image_path, json_out, no_text
  pc,            \* position in main
  img_path,      \* resolved input path
  path_status,   \* what the file system holds at img_path: "missing", "dir", "file"
  main_export,   \* result.export()
  trace,         \* pipeline steps attempted so far, in order
  completed,     \* pipeline steps that returned normally
  stdout,        \* texts printed to standard output
  stderr,        \* messages printed to standard error
  json_file,     \* the JSON output file: its path, and "none", "empty", "partial" or "complete"
  exit_code,     \* value returned by main; -1 while none
  raised_in      \* [step, kind, msg] of the exception raised in the try block, or NoRaise

flatVars == <<exported, fpc, page_index, output_lines, text>>
resVars  == <<user_path, cwd, rpc, resolved>>
mainVars == <<args, pc, img_path, path_status, main_export, trace, completed,
              stdout, stderr, json_file, exit_code, raised_in>>
vars == <<exported, fpc, page_index, output_lines, text,
          user_path, cwd, rpc, resolved,
          args, pc, img_path, path_status, main_export, trace, completed,
          stdout, stderr, json_file, exit_code, raised_in>>

----------------------------------------------------------------------------
(* Bounds *)

\* number of leaves (words and empty collections) of a generated export
MaxLeaves == 3
\* the same, for exports that may hold malformed values
MaxBadLeaves == 2
\* length of the path string given to resolve_input_path
MaxPathLen == 5
\* number of directories in the current working directory
MaxCwdDepth == 2
\* length of the image path given to main
MaxArgLen == 2

----------------------------------------------------------------------------
(* Text helpers *)

SP == " "
NL == "\n"

\* characters str.strip() removes
Whitespace == {SP, NL}

RECURSIVE LStrip(_)
LStrip(s) ==
  IF s = <<>> THEN <<>>
  ELSE IF Head(s) \in Whitespace THEN LStrip(Tail(s)) ELSE s

RECURSIVE RStrip(_)
RStrip(s) ==
  IF s = <<>> THEN <<>>
  ELSE IF s[Len(s)] \in Whitespace THEN RStrip(SubSeq(s, 1, Len(s) - 1)) ELSE s

\* str.strip()
Strip(s) == RStrip(LStrip(s))

\* sep.join(strs)
RECURSIVE Join(_, _)
Join(sep, strs) ==
  IF strs = <<>> THEN <<>>
  ELSE IF Len(strs) = 1 THEN strs[1]
  ELSE strs[1] \o sep \o Join(sep, Tail(strs))

----------------------------------------------------------------------------
(* Exports.  A dict's key is a slot [k, items]: k = "absent" when the key  *)
(* is missing, "list" when it holds the list items, "null" or "num" when   *)
(* it holds None or a number.  A word is [vk, s, n]: vk = "absent" when    *)
(* it has no "value" key, "str" for the string s, "null" for None, "num"   *)
(* for the number n.                                                       *)

Slot(kind, items) == [k |-> kind, items |-> items]
Word(vk, s, n) == [vk |-> vk, s |-> s, n |-> n]

WordsOK == {Word("absent", <<>>, 0), Word("str", <<>>, 0),
            Word("str", <<"A">>, 0), Word("str", <<SP>>, 0)}
WordsBad == {Word("null", <<>>, 0), Word("num", <<>>, 0), Word("num", <<>>, 5)}

Wrap(level, slot) ==
  CASE level = 1 -> [words |-> slot]
    [] level = 2 -> [lines |-> slot]
    [] level = 3 -> [blocks |-> slot]

\* The exports are enumerated by their number of leaves: a word is a leaf, and
\* so is a page, block or line whose collection is empty, absent or malformed.

\* the non-empty lists of total cost 1..n over elements elems[c] of cost c,
\* as a table indexed by cost
RECURSIVE ListTable(_, _)
ListTable(elems, n) ==
  IF n = 0 THEN <<>>
  ELSE LET t == ListTable(elems, n - 1)
       IN Append(t, UNION { { <<e>> \o rest :
                                e \in elems[c],
                                rest \in (IF c = n THEN {<<>>} ELSE t[n - c]) }
                            : c \in 1..n })

\* the dicts of one level, by cost, given the table of the lists they may hold
ElemTable(level, lists, n, SK) ==
  [c \in 1..n |->
     { Wrap(level, Slot("list", l)) : l \in lists[c] }
       \cup (IF c = 1
               THEN { Wrap(level, Slot(kk, <<>>)) : kk \in SK \cup {"list"} }
               ELSE {})]

\* the tables of pages by cost and of non-empty page lists by cost
PageTables(N, WK, SK) ==
  LET words  == ListTable([c \in 1..N |-> IF c = 1 THEN WK ELSE {}], N)
      lines  == ListTable(ElemTable(1, words, N, SK), N)
      blocks == ListTable(ElemTable(2, lines, N, SK), N)
      pelems == ElemTable(3, blocks, N, SK)
  IN [elems |-> [c \in 1..N |-> pelems[c]], lists |-> ListTable(pelems, N - 1)]

\* e is an export of at most N leaves
IsExportUpTo(e, T, N, SK) ==
  \/ \E kk \in SK \cup {"list"} : e = [pages |-> Slot(kk, <<>>)]
  \/ \E n \in 1..N : \E c \in 1..n :
        \E p \in T.elems[c] : \E rest \in (IF c = n THEN {<<>>} ELSE T.lists[n - c]) :
           e = [pages |-> Slot("list", <<p>> \o rest)]

----------------------------------------------------------------------------
(* extract_text_from_doctr_export, src/main.py 14-64 *)

\* d[key] in place of d.get(key, []): an absent key is no list
DictGetStrict(slot) == IF slot.k = "absent" THEN Slot("null", <<>>) ELSE slot

\* d.get(key, []) : the key's value, or an empty list when the key is absent
DictGet(slot) == IF slot.k = "absent" THEN Slot("list", <<>>) ELSE slot

\* a loop that takes whatever is no list for an empty list
IterableLenient(v) == TRUE

\* whether a for loop can iterate over the value
Iterable(v) == v.k = "list"

\* w.get("value", "")
WordGet(w) == IF w.vk = "absent" THEN Word("str", <<>>, 0) ELSE w

\* no test of the value: every word is appended
TruthyAll(v) == TRUE

\* Python truth value of a word's value (if value:)
Truthy(v) ==
  CASE v.vk = "str" -> v.s # <<>>
    [] v.vk = "null" -> FALSE
    [] v.vk = "num" -> v.n # 0

Ok(out) == [raised |-> FALSE, out |-> out]
Raise == [raised |-> TRUE, out |-> <<>>]

\* lines 48-53: the values appended to words
RECURSIVE CollectWords(_)
CollectWords(ws) ==
  IF ws = <<>> THEN <<>>
  ELSE LET value == WordGet(Head(ws))
       IN (IF Truthy(value) THEN <<value>> ELSE <<>>) \o CollectWords(Tail(ws))

\* lines 47-57: the entries one line appends to output_lines
LineEntries(line) ==
  LET ws == DictGet(line.words)
  IN IF ~Iterable(ws) THEN Raise
     ELSE LET words == CollectWords(ws.items)
          IN IF words = <<>> THEN Ok(<<>>)
             ELSE IF \E i \in 1..Len(words) : words[i].vk # "str" THEN Raise
             ELSE Ok(<< Join(<<SP>>, [i \in 1..Len(words) |-> words[i].s]) >>)

\* line 45: the loop over the lines of a block
RECURSIVE LinesLoop(_)
LinesLoop(ls) ==
  IF ls = <<>> THEN Ok(<<>>)
  ELSE LET h == LineEntries(Head(ls))
       IN IF h.raised THEN Raise
          ELSE LET t == LinesLoop(Tail(ls))
               IN IF t.raised THEN Raise ELSE Ok(h.out \o t.out)

BlockEntries(block) ==
  LET ls == DictGet(block.lines)
  IN IF ~Iterable(ls) THEN Raise ELSE LinesLoop(ls.items)

\* line 42: the loop over the blocks of a page
RECURSIVE BlocksLoop(_)
BlocksLoop(bs) ==
  IF bs = <<>> THEN Ok(<<>>)
  ELSE LET h == BlockEntries(Head(bs))
       IN IF h.raised THEN Raise
          ELSE LET t == BlocksLoop(Tail(bs))
               IN IF t.raised THEN Raise ELSE Ok(h.out \o t.out)

PageEntries(page) ==
  LET bs == DictGet(page.blocks)
  IN IF ~Iterable(bs) THEN Raise ELSE BlocksLoop(bs.items)

\* a blank line after every page, the last one included
PageSeparatorAlways(index, npages) == << <<>> >>

\* lines 60-61: the blank line between pages
PageSeparator(index, npages) == IF index # npages - 1 THEN << <<>> >> ELSE <<>>

\* lines 33-39: pages = exported.get("pages", []); output_lines = []; enter the loop
FlattenStart ==
  /\ fpc = "start"
  /\ IF Iterable(DictGet(exported.pages))
       THEN /\ fpc' = "loop"
            /\ output_lines' = <<>>
            /\ page_index' = 0
       ELSE /\ fpc' = "raised"
            /\ UNCHANGED <<output_lines, page_index>>
  /\ UNCHANGED <<exported, text>>
  /\ UNCHANGED resVars
  /\ UNCHANGED mainVars

\* lines 39-61: one iteration of the loop over pages (page_index is 0-based)
FlattenPage ==
  /\ fpc = "loop"
  /\ LET pages == DictGet(exported.pages).items
     IN /\ page_index < Len(pages)
        /\ LET r == PageEntries(pages[page_index + 1])
           IN IF r.raised
                THEN /\ fpc' = "raised"
                     /\ UNCHANGED <<output_lines, page_index>>
                ELSE /\ output_lines' = output_lines \o r.out
                                          \o PageSeparator(page_index, Len(pages))
                     /\ page_index' = page_index + 1
                     /\ fpc' = "loop"
  /\ UNCHANGED <<exported, text>>
  /\ UNCHANGED resVars
  /\ UNCHANGED mainVars

\* line 64: return "\n".join(output_lines).strip()
FlattenReturn ==
  /\ fpc = "loop"
  /\ page_index = Len(DictGet(exported.pages).items)
  /\ text' = Strip(Join(<<NL>>, output_lines))
  /\ fpc' = "done"
  /\ UNCHANGED <<exported, page_index, output_lines>>
  /\ UNCHANGED resVars
  /\ UNCHANGED mainVars

\* the whole function in one evaluation, as main calls it
ExtractText(e) ==
  LET ps == DictGet(e.pages)
      F[i \in 0..Len(ps.items)] ==
        IF i = 0 THEN Ok(<<>>)
        ELSE LET prev == F[i - 1]
                 r == PageEntries(ps.items[i])
             IN IF prev.raised \/ r.raised THEN Raise
                ELSE Ok(prev.out \o r.out \o PageSeparator(i - 1, Len(ps.items)))
  IN IF ~Iterable(ps) THEN Raise
     ELSE LET all == F[Len(ps.items)]
          IN IF all.raised THEN Raise ELSE Ok(Strip(Join(<<NL>>, all.out)))

----------------------------------------------------------------------------
(* resolve_input_path, src/path_resolver.py 3-26.  pathlib on POSIX.       *)

SEP == "/"
DOT == "."
PathChars == {SEP, DOT, "a"}
DotDot == <<DOT, DOT>>

\* s.split("/")
RECURSIVE SplitFrom(_, _)
SplitFrom(s, cur) ==
  IF s = <<>> THEN <<cur>>
  ELSE IF Head(s) = SEP THEN <<cur>> \o SplitFrom(Tail(s), <<>>)
  ELSE SplitFrom(Tail(s), Append(cur, Head(s)))
Split(s) == SplitFrom(s, <<>>)

Drop(s, n) == SubSeq(s, n + 1, Len(s))

\* the root pathlib finds: "/" for one leading slash or three and more, "//"
\* for exactly two, none otherwise
RootOf(s) ==
  IF s = <<>> \/ Head(s) # SEP THEN <<>>
  ELSE IF Len(s) >= 2 /\ s[2] = SEP /\ ~(Len(s) >= 3 /\ s[3] = SEP) THEN <<SEP, SEP>>
  ELSE <<SEP>>

KeepPart(x) == x # <<>> /\ x # <<DOT>>

\* line 19: Path(user_path): the root, and the segments that are neither
\* empty nor "."
PathOf(s) ==
  [root |-> RootOf(s), parts |-> SelectSeq(Split(Drop(s, Len(RootOf(s)))), KeepPart)]

\* every path taken for relative
IsAbsoluteNever(p) == FALSE

\* line 22: p.is_absolute()
IsAbsolute(p) == p.root # <<>>

\* line 23: Path.cwd() / p, for a relative p
JoinPath(base, p) == [root |-> base.root, parts |-> base.parts \o p.parts]

\* line 23: .resolve() on a file system without symbolic links: ".." removes
\* the segment before it, and stays at the root
RECURSIVE ResolveParts(_, _)
ResolveParts(done, todo) ==
  IF todo = <<>> THEN done
  ELSE IF Head(todo) = DotDot
         THEN ResolveParts(IF done = <<>> THEN <<>> ELSE SubSeq(done, 1, Len(done) - 1),
                           Tail(todo))
         ELSE ResolveParts(Append(done, Head(todo)), Tail(todo))
\* .absolute() in place of .resolve(): ".." segments stay
ResolvePathNone(p) == p

ResolvePath(p) == [root |-> p.root, parts |-> ResolveParts(<<>>, p.parts)]

\* str(path)
PathStr(p) ==
  IF p.root = <<>> /\ p.parts = <<>> THEN <<DOT>>
  ELSE p.root \o Join(<<SEP>>, p.parts)

\* lines 19-26
ResolveInputPath(s, d) ==
  LET p == PathOf(s)
  IN IF ~IsAbsolute(p) THEN ResolvePath(JoinPath(PathOf(d), p)) ELSE p

\* one call of resolve_input_path
ResolveCall ==
  /\ rpc = "call"
  /\ resolved' = PathStr(ResolveInputPath(user_path, cwd))
  /\ rpc' = "done"
  /\ UNCHANGED <<user_path, cwd>>
  /\ UNCHANGED flatVars
  /\ UNCHANGED mainVars

\* the strings of length at most n over PathChars
PathStrings(n) == UNION { [1..k -> PathChars] : k \in 0..n }

\* the working directories: at most n directories named "a" or "b" below the root
RECURSIVE CwdsOfDepth(_)
CwdsOfDepth(n) ==
  IF n = 0 THEN {<<>>}
  ELSE { d \o <<SEP, c>> : d \in CwdsOfDepth(n - 1), c \in {"a", "b"} }
Cwds == {<<SEP>>} \cup UNION { CwdsOfDepth(n) : n \in 1..MaxCwdDepth }

----------------------------------------------------------------------------
(* main, src/main.py 67-181 *)

NoRaise == [step |-> "none", kind |-> "none", msg |-> "none"]
NoFile == [path |-> <<>>, state |-> "none"]

\* a line printed to standard error: a fixed prefix followed by a value
Msg(prefix, arg) == [prefix |-> prefix, arg |-> arg]

\* How a call into docTR, the file system or the output stream may end:
\* it returns, raises an exception derived from Exception, or raises one that
\* is only a BaseException (KeyboardInterrupt, SystemExit).
Errors == {"boom", "denied"}
Outcomes ==
  {[kind |-> "ok", msg |-> "none"]}
    \cup {[kind |-> "Exception", msg |-> m] : m \in Errors}
    \cup {[kind |-> "BaseException", msg |-> "interrupt"]}

\* words with the values "A", "B", "C"
WordStr(c) == Word("str", <<c>>, 0)
LineOf(ws) == [words |-> Slot("list", ws)]
PageOf(ls) == [blocks |-> Slot("list", << [lines |-> Slot("list", ls)] >>)]
ExportOf(ps) == [pages |-> Slot("list", ps)]

\* page 1 holds the line "A B", page 2 the line "C"
TwoPageExport ==
  ExportOf(<< PageOf(<< LineOf(<< WordStr("A"), WordStr("B") >>) >>),
              PageOf(<< LineOf(<< WordStr("C") >>) >>) >>)
\* one page, one line, the words "H" and "W"
HelloWorldExport ==
  ExportOf(<< PageOf(<< LineOf(<< WordStr("H"), WordStr("W") >>) >>) >>)
EmptyExport == ExportOf(<<>>)
\* "pages" holds None
NullPagesExport == [pages |-> Slot("null", <<>>)]

\* what result.export() may return
MainExports == {EmptyExport, TwoPageExport, NullPagesExport}

\* values of --json-out
JsonOuts == {<<>>, <<"a">>, <<SEP, "a">>}

\* lines 171-176: the statement after the JSON block
AfterJson == IF ~args.no_text THEN "print" ELSE "return"

\* the JSON block entered whatever --json-out holds
AfterExportAlwaysWrite == "mkdir"

\* line 159: the statement after export
AfterExport == IF args.json_out # <<>> THEN "mkdir" ELSE AfterJson

\* a handler that reports the error and returns 0
FailReturns0(step, o) ==
  /\ raised_in' = [step |-> step, kind |-> o.kind, msg |-> o.msg]
  /\ IF o.kind = "Exception"
       THEN /\ stderr' = Append(stderr, Msg("ERROR: OCR failed: ", o.msg))
            /\ exit_code' = 0
            /\ pc' = "done"
       ELSE /\ pc' = "propagated"
            /\ UNCHANGED <<stderr, exit_code>>

\* lines 178-181: an exception raised inside the try block either reaches
\* "except Exception" or leaves main
Fail(step, o) ==
  /\ raised_in' = [step |-> step, kind |-> o.kind, msg |-> o.msg]
  /\ IF o.kind = "Exception"
       THEN /\ stderr' = Append(stderr, Msg("ERROR: OCR failed: ", o.msg))
            /\ exit_code' = 1
            /\ pc' = "done"
       ELSE /\ pc' = "propagated"
            /\ UNCHANGED <<stderr, exit_code>>

\* the validation without the is_file() test of lines 129-131
ValidatePathExistsOnly ==
  /\ pc = "start"
  /\ img_path' = PathStr(ResolveInputPath(args.image_path, cwd))
  /\ \E st \in {"missing", "dir", "file"} :
       /\ path_status' = st
       /\ IF st = "missing"
            THEN /\ stderr' = Append(stderr, Msg("ERROR: File not found: ", img_path'))
                 /\ exit_code' = 2
                 /\ pc' = "done"
            ELSE /\ pc' = "load"
                 /\ UNCHANGED <<stderr, exit_code>>
  /\ UNCHANGED <<args, main_export, trace, completed, stdout, json_file, raised_in>>
  /\ UNCHANGED <<cwd, user_path, rpc, resolved>>
  /\ UNCHANGED flatVars

\* lines 120-131
ValidatePath ==
  /\ pc = "start"
  /\ img_path' = PathStr(ResolveInputPath(args.image_path, cwd))
  /\ \E st \in {"missing", "dir", "file"} :
       /\ path_status' = st
       /\ IF st = "missing"
            THEN /\ stderr' = Append(stderr, Msg("ERROR: File not found: ", img_path'))
                 /\ exit_code' = 2
                 /\ pc' = "done"
            ELSE IF st # "file"
            THEN /\ stderr' = Append(stderr, Msg("ERROR: Not a file: ", img_path'))
                 /\ exit_code' = 2
                 /\ pc' = "done"
            ELSE /\ pc' = "load"
                 /\ UNCHANGED <<stderr, exit_code>>
  /\ UNCHANGED <<args, main_export, trace, completed, stdout, json_file, raised_in>>
  /\ UNCHANGED <<cwd, user_path, rpc, resolved>>
  /\ UNCHANGED flatVars

\* a statement of the try block that changes nothing of main's state when it
\* returns
Attempt(step, next) ==
  /\ pc = step
  /\ trace' = Append(trace, step)
  /\ \E o \in Outcomes :
       IF o.kind = "ok"
         THEN /\ completed' = completed \cup {step}
              /\ pc' = next
              /\ UNCHANGED <<stderr, exit_code, raised_in>>
         ELSE /\ Fail(step, o)
              /\ UNCHANGED completed
  /\ UNCHANGED <<args, img_path, path_status, main_export, stdout, json_file>>
  /\ UNCHANGED <<cwd, user_path, rpc, resolved>>
  /\ UNCHANGED flatVars

\* line 138: DocumentFile.from_images
Load == Attempt("load", "model")

\* lines 145-149: ocr_predictor(...)
BuildModel == Attempt("model", "predict")

\* line 153: model(doc)
Predict == Attempt("predict", "export")

\* line 156: result.export()
Export ==
  /\ pc = "export"
  /\ trace' = Append(trace, "export")
  /\ \E o \in Outcomes :
       IF o.kind = "ok"
         THEN /\ \E e \in MainExports : main_export' = e
              /\ completed' = completed \cup {"export"}
              /\ pc' = AfterExport
              /\ UNCHANGED <<stderr, exit_code, raised_in>>
         ELSE /\ Fail("export", o)
              /\ UNCHANGED <<completed, main_export>>
  /\ UNCHANGED <<args, img_path, path_status, stdout, json_file>>
  /\ UNCHANGED <<cwd, user_path, rpc, resolved>>
  /\ UNCHANGED flatVars

\* lines 161-164: resolve the output path and create its parent directories
Mkdir == Attempt("mkdir", "open")

\* line 167: open(out_path, "w") creates or truncates the file
OpenOut ==
  /\ pc = "open"
  /\ trace' = Append(trace, "open")
  /\ \E o \in Outcomes :
       IF o.kind = "ok"
         THEN /\ json_file' = [path |-> PathStr(ResolveInputPath(args.json_out, cwd)),
                               state |-> "empty"]
              /\ completed' = completed \cup {"open"}
              /\ pc' = "dump"
              /\ UNCHANGED <<stderr, exit_code, raised_in>>
         ELSE /\ Fail("open", o)
              /\ UNCHANGED <<completed, json_file>>
  /\ UNCHANGED <<args, img_path, path_status, main_export, stdout>>
  /\ UNCHANGED <<cwd, user_path, rpc, resolved>>
  /\ UNCHANGED flatVars

\* a write that removes the file when it fails
DumpRemovesOnFailure ==
  /\ pc = "dump"
  /\ trace' = Append(trace, "dump")
  /\ \E o \in Outcomes :
       IF o.kind = "ok"
         THEN /\ json_file' = [json_file EXCEPT !.state = "complete"]
              /\ completed' = completed \cup {"dump"}
              /\ pc' = AfterJson
              /\ UNCHANGED <<stderr, exit_code, raised_in>>
         ELSE /\ json_file' = NoFile
              /\ Fail("dump", o)
              /\ UNCHANGED completed
  /\ UNCHANGED <<args, img_path, path_status, main_export, stdout>>
  /\ UNCHANGED <<cwd, user_path, rpc, resolved>>
  /\ UNCHANGED flatVars

\* line 168: json.dump writes the file piece by piece; a failure leaves what
\* was written so far, and the with block closes the file
Dump ==
  /\ pc = "dump"
  /\ trace' = Append(trace, "dump")
  /\ \E o \in Outcomes :
       IF o.kind = "ok"
         THEN /\ json_file' = [json_file EXCEPT !.state = "complete"]
              /\ completed' = completed \cup {"dump"}
              /\ pc' = AfterJson
              /\ UNCHANGED <<stderr, exit_code, raised_in>>
         ELSE /\ \E w \in {"empty", "partial"} :
                   json_file' = [json_file EXCEPT !.state = w]
              /\ Fail("dump", o)
              /\ UNCHANGED completed
  /\ UNCHANGED <<args, img_path, path_status, main_export, stdout>>
  /\ UNCHANGED <<cwd, user_path, rpc, resolved>>
  /\ UNCHANGED flatVars

\* lines 172-173: text = extract_text_from_doctr_export(exported); print(text)
PrintText ==
  /\ pc = "print"
  /\ trace' = Append(trace, "print")
  /\ LET t == ExtractText(main_export)
     IN IF t.raised
          THEN /\ Fail("print", [kind |-> "Exception", msg |-> "TypeError"])
               /\ UNCHANGED <<completed, stdout>>
          ELSE \E o \in Outcomes :
                 IF o.kind = "ok"
                   THEN /\ stdout' = Append(stdout, t.out)
                        /\ completed' = completed \cup {"print"}
                        /\ pc' = "return"
                        /\ UNCHANGED <<stderr, exit_code, raised_in>>
                   ELSE /\ Fail("print", o)
                        /\ UNCHANGED <<completed, stdout>>
  /\ UNCHANGED <<args, img_path, path_status, main_export, json_file>>
  /\ UNCHANGED <<cwd, user_path, rpc, resolved>>
  /\ UNCHANGED flatVars

\* line 176: return 0
ReturnOk ==
  /\ pc = "return"
  /\ exit_code' = 0
  /\ pc' = "done"
  /\ UNCHANGED <<args, img_path, path_status, main_export, trace, completed,
                 stdout, stderr, json_file, raised_in>>
  /\ UNCHANGED <<cwd, user_path, rpc, resolved>>
  /\ UNCHANGED flatVars

NoExport == [pages |-> Slot("absent", <<>>)]
NoArgs == [image_path |-> <<>>, json_out |-> <<>>, no_text |-> FALSE]

ResIdle ==
  /\ user_path = <<>> /\ cwd = <<SEP>> /\ rpc = "idle" /\ resolved = <<>>
MainIdle ==
  /\ args = NoArgs /\ pc = "idle" /\ img_path = <<>> /\ path_status = "unknown"
  /\ main_export = NoExport /\ trace = <<>> /\ completed = {}
  /\ stdout = <<>> /\ stderr = <<>> /\ json_file = NoFile /\ exit_code = -1
  /\ raised_in = NoRaise
FlatIdle ==
  /\ exported = NoExport /\ fpc = "idle" /\ page_index = 0
  /\ output_lines = <<>> /\ text = <<>>

\* exports with every key either absent or holding a list, and every value
\* absent or a string
GoodTables == PageTables(MaxLeaves, WordsOK, {"absent"})
\* exports whose keys and values may also be null or a number
AnyTables == PageTables(MaxBadLeaves, WordsOK \cup WordsBad, {"absent", "null", "num"})

\* the exports named in the specification's examples
SpecExamples == {TwoPageExport, HelloWorldExport}

InitFlatten ==
  /\ \/ IsExportUpTo(exported, GoodTables, MaxLeaves, {"absent"})
     \/ exported \in SpecExamples
  /\ fpc = "start" /\ page_index = 0 /\ output_lines = <<>> /\ text = <<>>
  /\ ResIdle /\ MainIdle

InitFlattenAny ==
  /\ IsExportUpTo(exported, AnyTables, MaxBadLeaves, {"absent", "null", "num"})
  /\ fpc = "start" /\ page_index = 0 /\ output_lines = <<>> /\ text = <<>>
  /\ ResIdle /\ MainIdle

NextFlatten == FlattenStart \/ FlattenPage \/ FlattenReturn

SpecFlatten == InitFlatten /\ [][NextFlatten]_vars
SpecFlattenAny == InitFlattenAny /\ [][NextFlatten]_vars

InitResolve ==
  /\ user_path \in PathStrings(MaxPathLen)
  /\ cwd \in Cwds
  /\ rpc = "call" /\ resolved = <<>>
  /\ FlatIdle /\ MainIdle

NextResolve == ResolveCall

SpecResolve == InitResolve /\ [][NextResolve]_vars

\* the state when main starts, after parse_args (line 118)
Init ==
  /\ args \in [image_path : PathStrings(MaxArgLen), json_out : JsonOuts, no_text : BOOLEAN]
  /\ cwd \in Cwds
  /\ pc = "start" /\ img_path = <<>> /\ path_status = "unknown"
  /\ main_export = NoExport /\ trace = <<>> /\ completed = {}
  /\ stdout = <<>> /\ stderr = <<>> /\ json_file = NoFile /\ exit_code = -1
  /\ raised_in = NoRaise
  /\ user_path = <<>> /\ rpc = "idle" /\ resolved = <<>>
  /\ FlatIdle

Next ==
  \/ ValidatePath \/ Load \/ BuildModel \/ Predict \/ Export
  \/ Mkdir \/ OpenOut \/ Dump \/ PrintText \/ ReturnOk

Spec == Init /\ [][Next]_vars

----------------------------------------------------------------------------
(* Reference definitions for the properties of flatten.  They read only the *)
(* items of a collection and the string of a word, which are empty for an   *)
(* absent key.                                                              *)

NonEmpty(x) == x # <<>>

RECURSIVE ConcatAll(_)
ConcatAll(ss) == IF ss = <<>> THEN <<>> ELSE Head(ss) \o ConcatAll(Tail(ss))

Min(a, b) == IF a < b THEN a ELSE b

\* the non-empty word values of a line, in order
RefLineWords(line) ==
  SelectSeq([i \in 1..Len(line.words.items) |-> line.words.items[i].s], NonEmpty)

\* all lines of a page, block after block
RefPageLines(page) ==
  ConcatAll([b \in 1..Len(page.blocks.items) |-> page.blocks.items[b].lines.items])

\* one entry per line that has a contributing word
RefPageEntries(page) ==
  LET ls == RefPageLines(page)
      joined == [i \in 1..Len(ls) |-> Join(<<SP>>, RefLineWords(ls[i]))]
      contributes(i) == RefLineWords(ls[i]) # <<>>
  IN ConcatAll([i \in 1..Len(ls) |-> IF contributes(i) THEN <<joined[i]>> ELSE <<>>])

\* the entries of all pages, one empty entry after every page but the last
RefEntries(e) ==
  LET ps == e.pages.items
  IN ConcatAll([i \in 1..Len(ps) |->
       RefPageEntries(ps[i]) \o (IF i < Len(ps) THEN << <<>> >> ELSE <<>>)])

\* s without its leading and trailing whitespace
RefStrip(s) ==
  LET keep == { i \in 1..Len(s) : s[i] \notin Whitespace }
  IN IF keep = {} THEN <<>>
     ELSE LET lo == CHOOSE i \in keep : \A j \in keep : i <= j
              hi == CHOOSE i \in keep : \A j \in keep : j <= i
          IN SubSeq(s, lo, hi)

RefText(e) == RefStrip(Join(<<NL>>, RefEntries(e)))

\* number of entries of s equal to x
Count(s, x) == Cardinality({ i \in 1..Len(s) : s[i] = x })

\* the export with every absent collection replaced by an empty list and
\* every absent value by the empty string
FillWord(w) == IF w.vk = "absent" THEN Word("str", <<>>, 0) ELSE w
FillSlot(slot, items) == Slot(IF slot.k = "absent" THEN "list" ELSE slot.k, items)
FillLine(l) ==
  [words |-> FillSlot(l.words, [i \in 1..Len(l.words.items) |-> FillWord(l.words.items[i])])]
FillBlock(b) ==
  [lines |-> FillSlot(b.lines, [i \in 1..Len(b.lines.items) |-> FillLine(b.lines.items[i])])]
FillPage(p) ==
  [blocks |-> FillSlot(p.blocks, [i \in 1..Len(p.blocks.items) |-> FillBlock(p.blocks.items[i])])]
Fill(e) ==
  [pages |-> FillSlot(e.pages, [i \in 1..Len(e.pages.items) |-> FillPage(e.pages.items[i])])]

\* some key or value of the export is absent
AbsentWord(w) == w.vk = "absent"
AbsentInLine(l) ==
  l.words.k = "absent" \/ \E i \in 1..Len(l.words.items) : AbsentWord(l.words.items[i])
AbsentInBlock(b) ==
  b.lines.k = "absent" \/ \E i \in 1..Len(b.lines.items) : AbsentInLine(b.lines.items[i])
AbsentInPage(p) ==
  p.blocks.k = "absent" \/ \E i \in 1..Len(p.blocks.items) : AbsentInBlock(p.blocks.items[i])
HasAbsent(e) ==
  e.pages.k = "absent" \/ \E i \in 1..Len(e.pages.items) : AbsentInPage(e.pages.items[i])

\* a key holds None or a number
BadSlot(slot) == slot.k \in {"null", "num"}
\* a value that is not a string and is true in a condition
TruthyNonString(w) == w.vk = "num" /\ w.n # 0
RaisingLine(l) ==
  BadSlot(l.words) \/ \E i \in 1..Len(l.words.items) : TruthyNonString(l.words.items[i])
RaisingBlock(b) ==
  BadSlot(b.lines) \/ \E i \in 1..Len(b.lines.items) : RaisingLine(b.lines.items[i])
RaisingPage(p) ==
  BadSlot(p.blocks) \/ \E i \in 1..Len(p.blocks.items) : RaisingBlock(p.blocks.items[i])
\* a collection key holds None or a number, or a value is a non-zero number
RaisingExport(e) ==
  BadSlot(e.pages) \/ \E i \in 1..Len(e.pages.items) : RaisingPage(e.pages.items[i])

\* the export with every malformed key made absent and every value that is
\* not a string made absent
DegradeWord(w) == IF w.vk \in {"null", "num"} THEN Word("absent", <<>>, 0) ELSE w
DegradeSlot(slot, items) == Slot(IF BadSlot(slot) THEN "absent" ELSE slot.k, items)
DegradeLine(l) ==
  [words |-> DegradeSlot(l.words,
               [i \in 1..Len(l.words.items) |-> DegradeWord(l.words.items[i])])]
DegradeBlock(b) ==
  [lines |-> DegradeSlot(b.lines,
               [i \in 1..Len(b.lines.items) |-> DegradeLine(b.lines.items[i])])]
DegradePage(p) ==
  [blocks |-> DegradeSlot(p.blocks,
                [i \in 1..Len(p.blocks.items) |-> DegradeBlock(p.blocks.items[i])])]
Degrade(e) ==
  [pages |-> DegradeSlot(e.pages,
               [i \in 1..Len(e.pages.items) |-> DegradePage(e.pages.items[i])])]

AB_C == <<"A", SP, "B", NL, NL, "C">>

----------------------------------------------------------------------------
(* Properties of flatten *)

\* C1: for every export, the text flatten returns is the reference text: per
\* line the non-empty word values joined by one space, no entry for a line
\* without contributing words, one empty entry after every page but the last,
\* the entries joined by newline and the result stripped; an empty pages list
\* gives the empty string and the pages "A B", "C" give "A B\n\nC".
C1_FlattenIsReferenceText ==
  /\ fpc = "done" => text = RefText(exported)
  /\ (fpc = "done" /\ exported = EmptyExport) => text = <<>>
  /\ (fpc = "done" /\ exported = TwoPageExport) => text = AB_C
  /\ fpc # "raised"

C1_Witness ==
  /\ fpc = "done"
  /\ exported = TwoPageExport
  /\ text = AB_C

\* C4: for every export with an absent "pages", "blocks", "lines" or "words"
\* key or a word without "value", flatten does not fail and returns what it
\* returns for the export with each absent collection replaced by an empty
\* list and each absent value by the empty string.
C4_AbsentKeysAreEmpty ==
  HasAbsent(exported) =>
    /\ fpc # "raised"
    /\ fpc = "done" =>
         /\ ~ExtractText(Fill(exported)).raised
         /\ text = ExtractText(Fill(exported)).out

C4_Witness ==
  /\ fpc = "done"
  /\ Len(exported.pages.items) = 2
  /\ exported.pages.items[1].blocks.k = "absent"
  /\ exported.pages.items[2].blocks.k = "list"
  /\ text = <<"A">>

\* C5 as stated: flatten never raises on a key that holds null or a number or
\* on a value that is not a string, and returns what it returns with each such
\* entry absent.
C5_MalformedNeverRaises ==
  /\ fpc # "raised"
  /\ fpc = "done" => text = ExtractText(Degrade(exported)).out

\* C5 amended: flatten raises when a "pages", "blocks", "lines" or "words" key
\* holds null or a number, or when a word's value is a non-zero number; it
\* degrades gracefully only for a word's value that is null or zero, which is
\* skipped like an absent value.
C5_MalformedRaisesUnlessFalsyValue ==
  /\ fpc = "raised" => RaisingExport(exported)
  /\ fpc = "done" =>
       /\ ~RaisingExport(exported)
       /\ text = ExtractText(Degrade(exported)).out
       /\ text = RefText(exported)

C5_Witness ==
  /\ fpc = "raised"
  /\ page_index = 1
  /\ exported.pages.k = "list"
  /\ \E i \in 1..Len(exported.pages.items) : RaisingPage(exported.pages.items[i])

\* the number of entries the first j pages contribute
RECURSIVE EntriesUpTo(_, _)
EntriesUpTo(ps, j) ==
  IF j = 0 THEN 0 ELSE EntriesUpTo(ps, j - 1) + Len(RefPageEntries(ps[j]))

\* C6: output_lines receives exactly one empty entry immediately after the
\* entries of each page that is not the last, also after a page without text,
\* and none after the last page: n-1 separators for n >= 1 pages.
C6_OneSeparatorPerNonLastPage ==
  fpc \in {"loop", "done"} =>
    LET ps == exported.pages.items
        n == Len(ps)
        seps == IF n = 0 THEN 0 ELSE Min(page_index, n - 1)
    IN /\ Count(output_lines, <<>>) = seps
       /\ Len(output_lines) = EntriesUpTo(ps, page_index) + seps
       /\ \A j \in 1..seps : output_lines[EntriesUpTo(ps, j) + j] = <<>>
       /\ (fpc = "done" /\ n >= 1) => Count(output_lines, <<>>) = n - 1

C6_Witness ==
  /\ fpc = "done"
  /\ Len(exported.pages.items) = 3
  /\ RefPageEntries(exported.pages.items[2]) = <<>>
  /\ output_lines = << <<"A">>, <<>>, <<>>, <<"A">> >>

----------------------------------------------------------------------------
(* Reference definitions for the properties of resolve *)

\* os.path.normpath: the leading slashes (one, or two when there are exactly
\* two), then the segments with empty and "." segments dropped and each ".."
\* cancelling the segment before it
RECURSIVE NormParts(_, _, _)
NormParts(done, todo, rooted) ==
  IF todo = <<>> THEN done
  ELSE LET x == Head(todo)
       IN IF x = <<>> \/ x = <<DOT>> THEN NormParts(done, Tail(todo), rooted)
          ELSE IF x # DotDot THEN NormParts(Append(done, x), Tail(todo), rooted)
          ELSE IF done # <<>> /\ done[Len(done)] # DotDot
                 THEN NormParts(SubSeq(done, 1, Len(done) - 1), Tail(todo), rooted)
          ELSE IF rooted THEN NormParts(done, Tail(todo), rooted)
          ELSE NormParts(Append(done, x), Tail(todo), rooted)

LeadingSlashes(s) ==
  IF s = <<>> \/ s[1] # SEP THEN <<>>
  ELSE IF Len(s) >= 2 /\ s[2] = SEP /\ (Len(s) = 2 \/ s[3] # SEP) THEN <<SEP, SEP>>
  ELSE <<SEP>>

Normalize(s) ==
  LET lead == LeadingSlashes(s)
      parts == NormParts(<<>>, Split(s), lead # <<>>)
  IN IF lead = <<>> /\ parts = <<>> THEN <<DOT>> ELSE lead \o Join(<<SEP>>, parts)

\* the same without cancelling "..": only empty and "." segments are dropped
RECURSIVE KeepSegments(_)
KeepSegments(segs) ==
  IF segs = <<>> THEN <<>>
  ELSE IF Head(segs) = <<>> \/ Head(segs) = <<DOT>> THEN KeepSegments(Tail(segs))
  ELSE <<Head(segs)>> \o KeepSegments(Tail(segs))
Collapse(s) ==
  LET lead == LeadingSlashes(s)
      parts == KeepSegments(Split(s))
  IN IF lead = <<>> /\ parts = <<>> THEN <<DOT>> ELSE lead \o Join(<<SEP>>, parts)

\* os.path.join(d, p) for a relative p
OsJoin(d, p) == IF d[Len(d)] = SEP THEN d \o p ELSE d \o <<SEP>> \o p

IsAbsoluteString(s) == s # <<>> /\ s[1] = SEP
HasDotDot(s) == \E i \in 1..Len(Split(s)) : Split(s)[i] = DotDot

----------------------------------------------------------------------------
(* Properties of resolve *)

\* C7 as stated: for every absolute path string p, resolve(p) = normalize(p),
\* with "." and ".." segments resolved and redundant separators collapsed.
C7_AbsoluteIsNormalized ==
  (rpc = "done" /\ IsAbsoluteString(user_path)) => resolved = Normalize(user_path)

\* C7 amended: for every absolute path string p and every working directory,
\* resolve(p) is p with redundant separators and "." segments removed and its
\* ".." segments kept; it does not depend on the working directory, and it
\* equals normalize(p) when p has no ".." segment.
C7_AbsoluteKeepsDotDot ==
  (rpc = "done" /\ IsAbsoluteString(user_path)) =>
    /\ resolved = Collapse(user_path)
    /\ ~HasDotDot(user_path) => resolved = Normalize(user_path)

C7_Witness ==
  /\ rpc = "done"
  /\ user_path = <<SEP, "a", SEP, DOT, DOT>>
  /\ cwd = <<SEP, "b">>
  /\ resolved = <<SEP, "a", SEP, DOT, DOT>>

\* C8: for every relative path string p and working directory d, resolve(p) =
\* normalize(d / p); the result is absolute, and resolve raises no error.
C8_RelativeIsNormalizedJoin ==
  (rpc = "done" /\ ~IsAbsoluteString(user_path)) =>
    /\ resolved = Normalize(OsJoin(cwd, user_path))
    /\ IsAbsoluteString(resolved)

C8_Witness ==
  /\ rpc = "done"
  /\ user_path = <<DOT, DOT, SEP, "a">>
  /\ cwd = <<SEP, "b", SEP, "a">>
  /\ resolved = <<SEP, "b", SEP, "a">>

----------------------------------------------------------------------------
(* Properties of main *)

OcrSteps == {"load", "model", "predict", "export"}
WriteSteps == {"mkdir", "open", "dump"}
StepOrder == <<"load", "model", "predict", "export", "mkdir", "open", "dump", "print">>

\* the steps the command line enables, in pipeline order
StepEnabled(step) ==
  /\ step \in WriteSteps => args.json_out # <<>>
  /\ step = "print" => ~args.no_text
EnabledSteps == SelectSeq(StepOrder, StepEnabled)

FailedMsg == Msg("ERROR: OCR failed: ", raised_in.msg)

\* C2: when the resolved input path does not exist or is not a regular file,
\* main returns 2 with one message on standard error that contains the
\* resolved path, and the loader and the predictor are never invoked, no JSON
\* file is written and nothing is printed to standard output.
C2_InvalidPathExits2BeforeOcr ==
  path_status \in {"missing", "dir"} =>
    /\ pc = "done"
    /\ exit_code = 2
    /\ img_path = PathStr(ResolveInputPath(args.image_path, cwd))
    /\ stderr = << Msg(IF path_status = "missing" THEN "ERROR: File not found: "
                                                 ELSE "ERROR: Not a file: ", img_path) >>
    /\ trace = <<>>
    /\ json_file = NoFile
    /\ stdout = <<>>

C2_Witness ==
  /\ path_status = "dir"
  /\ args.image_path = <<DOT, DOT>>
  /\ cwd = <<SEP, "a", SEP, "b">>
  /\ exit_code = 2
  /\ stderr = << Msg("ERROR: Not a file: ", <<SEP, "a">>) >>

\* C3 as stated: any exception raised while loading, building the model,
\* predicting or exporting is caught: main prints its message prefixed
\* "ERROR: OCR failed: ", returns 1, and no OCR step is attempted twice.
C3_AnyOcrExceptionExits1 ==
  /\ \A st \in OcrSteps : Count(trace, st) <= 1
  /\ raised_in.step \in OcrSteps =>
       /\ pc = "done"
       /\ exit_code = 1
       /\ stderr = <<FailedMsg>>

\* C3 amended: the same for every exception derived from Exception; an
\* exception that is only a BaseException (KeyboardInterrupt, SystemExit)
\* leaves main uncaught, with no message and no exit code from main.
C3_OcrExceptionExits1 ==
  /\ \A st \in OcrSteps : Count(trace, st) <= 1
  /\ (raised_in.step \in OcrSteps /\ raised_in.kind = "Exception") =>
       /\ path_status = "file"
       /\ pc = "done"
       /\ exit_code = 1
       /\ stderr = <<FailedMsg>>
       /\ trace[Len(trace)] = raised_in.step
  /\ (raised_in.step \in OcrSteps /\ raised_in.kind = "BaseException") =>
       /\ pc = "propagated"
       /\ exit_code = -1
       /\ stderr = <<>>
       /\ trace[Len(trace)] = raised_in.step

C3_Witness ==
  /\ raised_in = [step |-> "predict", kind |-> "Exception", msg |-> "boom"]
  /\ trace = <<"load", "model", "predict">>
  /\ exit_code = 1
  /\ stderr = << Msg("ERROR: OCR failed: ", "boom") >>

\* C9: with a valid input path the steps run only in the order load, (model,)
\* predict, export, JSON write if --json-out is given, text print unless
\* --no-text: each step at most once, each only after the enabled steps before
\* it completed, nothing after the first failing step, and exit code 0 only
\* when every enabled step completed.
C9_PipelineOrder ==
  /\ Len(trace) <= Len(EnabledSteps)
  /\ trace = SubSeq(EnabledSteps, 1, Len(trace))
  /\ Count(trace, "predict") <= 1
  /\ \A i \in 1..Len(trace) : \A j \in 1..(i - 1) : trace[j] \in completed
  /\ \A st \in completed : Count(trace, st) = 1
  /\ trace # <<>> => path_status = "file"
  /\ (\E i \in 1..Len(trace) : trace[i] \in WriteSteps) =>
       (args.json_out # <<>> /\ "export" \in completed)
  /\ json_file # NoFile => (args.json_out # <<>> /\ "export" \in completed)
  /\ stdout # <<>> =>
       /\ ~args.no_text
       /\ "export" \in completed
       /\ args.json_out # <<>> => json_file.state = "complete"
  /\ raised_in # NoRaise =>
       /\ pc \in {"done", "propagated"}
       /\ trace[Len(trace)] = raised_in.step
       /\ raised_in.step \notin completed
       /\ exit_code # 0
  /\ exit_code = 0 =>
       /\ trace = EnabledSteps
       /\ \A i \in 1..Len(EnabledSteps) : EnabledSteps[i] \in completed
       /\ raised_in = NoRaise
       /\ ~args.no_text => Len(stdout) = 1

C9_Witness ==
  /\ exit_code = 0
  /\ args.json_out # <<>>
  /\ ~args.no_text
  /\ trace = StepOrder
  /\ json_file.state = "complete"
  /\ stdout = <<AB_C>>

\* C10 as stated: when a step after export raises inside the try block
\* (creating the output directory, opening or writing the JSON file,
\* flattening or printing), main returns 1 with the "ERROR: OCR failed: "
\* message; a failure in the JSON write prints no text, and what was written
\* to the JSON file stays.
C10_AnyLateFailureExits1 ==
  raised_in.step \in WriteSteps \cup {"print"} =>
    /\ pc = "done"
    /\ exit_code = 1
    /\ stderr = <<FailedMsg>>
    /\ raised_in.step \in WriteSteps => stdout = <<>>
    /\ raised_in.step = "dump" => json_file.state \in {"empty", "partial"}

\* C10 amended: the same when the step raises an exception derived from
\* Exception; an exception that is only a BaseException leaves main uncaught.
\* In both cases a failed JSON write prints no text and leaves the file.
C10_LateFailureExits1 ==
  raised_in.step \in WriteSteps \cup {"print"} =>
    /\ "export" \in completed
    /\ raised_in.kind = "Exception" =>
         /\ pc = "done"
         /\ exit_code = 1
         /\ stderr = <<FailedMsg>>
    /\ raised_in.kind = "BaseException" =>
         /\ pc = "propagated"
         /\ exit_code = -1
    /\ raised_in.step \in WriteSteps => stdout = <<>>
    /\ raised_in.step = "dump" =>
         /\ json_file.state \in {"empty", "partial"}
         /\ json_file.path = PathStr(ResolveInputPath(args.json_out, cwd))
    /\ raised_in.step = "print" =>
         /\ stdout = <<>>
         /\ args.json_out # <<>> => json_file.state = "complete"

C10_Witness ==
  /\ raised_in = [step |-> "dump", kind |-> "Exception", msg |-> "denied"]
  /\ ~args.no_text
  /\ main_export = TwoPageExport
  /\ json_file.state = "partial"
  /\ exit_code = 1
  /\ stdout = <<>>
  /\ stderr = << Msg("ERROR: OCR failed: ", "denied") >>

====
